---- MODULE Spec2Model ----
(***************************************************************************)
(* Model of Tools/split_pdf.py: the page-selection parser parse_pages, the *)
(* split operation split_pdf and the PDFSplitter window that runs it on a  *)
(* background thread; and of caesar_shift of                               *)
(* Tools/caesar_cipher_visualizer.py.                                      *)
(*                                                                         *)
(* A Python str is a sequence of one-character strings.  A value that may  *)
(* be None is a record [none |-> BOOLEAN, s |-> the str].                  *)
(***************************************************************************)
EXTENDS Integers, Sequences, FiniteSets, TLC

VARIABLES
    pp_str,      \* parse_pages: the argument pages_str
    pp_total,    \* parse_pages: the argument total
    pp_ret,      \* parse_pages: the outcome of the call, once made
    args,        \* split_pdf: pdf_path, out_dir, pattern, pages, progress_cb
    files,       \* file system: path -> content of each regular file
    dirs,        \* file system: the directories that exist
    pc,          \* split_pdf: the position of the running call
    err,         \* split_pdf: the exception that ended the call, or "none"
    ret,         \* split_pdf: the value returned to the caller
    reader,      \* split_pdf: the PdfReader, the document as read at line 49
    page_indexes,\* split_pdf: the local page_indexes
    out_dir,     \* split_pdf: the local out_dir after line 56
    idx,         \* split_pdf: the loop counter idx of line 59
    opened,      \* history: PdfReader(pdf_path) was called in this call
    parsed,      \* history: parse_pages was called in this call
    written,     \* history: the paths written by this call, in order
    events,      \* history: the progress_cb calls of this call, in order
    run,         \* history: the number of the call (1 for the first)
    began,       \* history: the file system when this call started
    prev,        \* history: how the previous call started and ended
    browse_btn,  \* PDFSplitter: the state option of the Browse PDF button
    drop_label,  \* PDFSplitter: the text of the drop area
    progress,    \* PDFSplitter: the value of the progress bar
    out_var,     \* PDFSplitter: the content of the Output Dir entry
    threads,     \* PDFSplitter: the _split threads started, in order
    cs_text,     \* caesar_shift: the argument text, as code points
    cs_shift,    \* caesar_shift: the argument shift
    cs_preserve, \* caesar_shift: the argument preserve
    cs_out,      \* caesar_shift: the result of the call, once made
    cs_back      \* caesar_shift: the result of the call that shifts back

pvars == <<pp_str, pp_total, pp_ret>>

svars == <<args, files, dirs, pc, err, ret, reader, page_indexes, out_dir,
           idx, opened, parsed, written, events, run, began, prev>>

gvars == <<browse_btn, drop_label, progress, out_var, threads>>

cvars == <<cs_text, cs_shift, cs_preserve, cs_out, cs_back>>

vars == <<pvars, svars, gvars, cvars>>

(***************************************************************************)
(* Bounds                                                                  *)
(***************************************************************************)
\* longest page expression enumerated for parse_pages
MaxLen == 4
\* largest page count enumerated for parse_pages
MaxTotal == 3

\* the characters page expressions are made of
Alphabet == {"0", "1", "2", "3", "-", ",", " ", "a"}

Digits == {"0", "1", "2", "3", "4", "5", "6", "7", "8", "9"}

(***************************************************************************)
(* str helpers                                                             *)
(***************************************************************************)
Min(a, b) == IF a <= b THEN a ELSE b

\* the value of one decimal digit
DigitVal(c) ==
    CASE c = "0" -> 0 [] c = "1" -> 1 [] c = "2" -> 2 [] c = "3" -> 3
      [] c = "4" -> 4 [] c = "5" -> 5 [] c = "6" -> 6 [] c = "7" -> 7
      [] c = "8" -> 8 [] c = "9" -> 9

\* s[i:] (1-based i)
Drop(s, i) == SubSeq(s, i, Len(s))

\* index of the first c in s, 0 if there is none
RECURSIVE FindFrom(_, _, _)
FindFrom(s, c, i) ==
    IF i > Len(s) THEN 0
    ELSE IF s[i] = c THEN i
    ELSE FindFrom(s, c, i + 1)

Find(s, c) == FindFrom(s, c, 1)

\* c in s
Contains(s, c) == Find(s, c) # 0

\* s.split(c): the pieces between the occurrences of c, empty pieces kept
RECURSIVE StrSplit(_, _)
StrSplit(s, c) ==
    LET i == Find(s, c)
    IN  IF i = 0 THEN <<s>>
        ELSE <<SubSeq(s, 1, i - 1)>> \o StrSplit(Drop(s, i + 1), c)

\* s.lstrip(), s.rstrip(), s.strip()
RECURSIVE LStrip(_)
LStrip(s) == IF s # <<>> /\ s[1] = " " THEN LStrip(Tail(s)) ELSE s

RECURSIVE RStrip(_)
RStrip(s) ==
    IF s # <<>> /\ s[Len(s)] = " " THEN RStrip(SubSeq(s, 1, Len(s) - 1)) ELSE s

Strip(s) == LStrip(RStrip(s))

\* the value of a string of decimal digits
RECURSIVE DigitsVal(_, _)
DigitsVal(s, acc) ==
    IF s = <<>> THEN acc ELSE DigitsVal(Tail(s), 10 * acc + DigitVal(s[1]))

\* int(s): surrounding whitespace is ignored, then an optional sign, then
\* at least one digit; anything else raises ValueError
IntBody(s) ==
    LET t == Strip(s)
    IN  IF t # <<>> /\ t[1] \in {"+", "-"} THEN Tail(t) ELSE t

IntOk(s) ==
    LET b == IntBody(s)
    IN  b # <<>> /\ \A i \in 1..Len(b) : b[i] \in Digits

IntOf(s) ==
    LET t == Strip(s)
        v == DigitsVal(IntBody(s), 0)
    IN  IF t[1] = "-" THEN 0 - v ELSE v

\* sorted(S) for a finite set of integers
RECURSIVE Sorted(_)
Sorted(S) ==
    IF S = {} THEN <<>>
    ELSE LET m == CHOOSE x \in S : \A y \in S : x <= y
         IN  <<m>> \o Sorted(S \ {m})

\* list(range(n))
RangeList(n) == [i \in 1..(IF n > 0 THEN n ELSE 0) |-> i - 1]

\* mutant of RangeSet: the last element is left out as well
RangeSet_OneShort(a, b) == {i \in a..(b - 2) : TRUE}

\* set(range(a, b))
RangeSet(a, b) == {i \in a..(b - 1) : TRUE}

(***************************************************************************)
(* parse_pages                                                             *)
(***************************************************************************)
\* a returned list, and a raised exception
Returned(v) == [err |-> "none", val |-> v]
Raised(e) == [err |-> e, val |-> <<>>]

\* mutant of InBounds: the lower bound of the filter is forgotten
InBounds_NoLowerBound(pages, total) == {p \in pages : p < total}

\* the final expression: sorted(p for p in pages if 0 <= p < total)
InBounds(pages, total) == {p \in pages : 0 <= p /\ p < total}

\* mutant of PartPages: a single number is not converted to a zero-based index
PartPages_NumberNotConverted(part0, total) ==
    LET part == Strip(part0)
    IN  IF part = <<>> THEN [ok |-> TRUE, add |-> {}]
        ELSE IF Contains(part, "-") THEN
            LET i == Find(part, "-")
                start_s == SubSeq(part, 1, i - 1)
                end_s == Drop(part, i + 1)
            IN  IF ~IntOk(start_s) \/ ~IntOk(end_s)
                THEN [ok |-> FALSE, add |-> {}]
                ELSE [ok |-> TRUE,
                      add |-> RangeSet(IntOf(start_s) - 1,
                                       Min(IntOf(end_s), total))]
        ELSE IF ~IntOk(part) THEN [ok |-> FALSE, add |-> {}]
        ELSE [ok |-> TRUE, add |-> {IntOf(part)}]

\* one pass of the loop body on the token part (before strip); the outcome
\* is the pages to add, or ok = FALSE when int() raises ValueError
PartPages(part0, total) ==
    LET part == Strip(part0)
    IN  IF part = <<>> THEN [ok |-> TRUE, add |-> {}]
        ELSE IF Contains(part, "-") THEN
            LET i == Find(part, "-")
                start_s == SubSeq(part, 1, i - 1)
                end_s == Drop(part, i + 1)
            IN  IF ~IntOk(start_s) \/ ~IntOk(end_s)
                THEN [ok |-> FALSE, add |-> {}]
                ELSE LET start == IntOf(start_s) - 1
                         end == IntOf(end_s) - 1
                     IN  [ok |-> TRUE,
                          add |-> RangeSet(start, Min(end + 1, total))]
        ELSE IF ~IntOk(part) THEN [ok |-> FALSE, add |-> {}]
        ELSE [ok |-> TRUE, add |-> {IntOf(part) - 1}]

\* mutant of ParseLoop: each token replaces the pages collected so far
RECURSIVE ParseLoop_Overwrites(_, _, _, _)
ParseLoop_Overwrites(parts, i, pages, total) ==
    IF i > Len(parts) THEN Returned(Sorted(InBounds(pages, total)))
    ELSE LET r == PartPages(parts[i], total)
         IN  IF ~r.ok THEN Raised("ValueError")
             ELSE IF Strip(parts[i]) = <<>>
                 THEN ParseLoop_Overwrites(parts, i + 1, pages, total)
             ELSE ParseLoop_Overwrites(parts, i + 1, r.add, total)

\* the for loop over pages_str.split(','), from token i on
RECURSIVE ParseLoop(_, _, _, _)
ParseLoop(parts, i, pages, total) ==
    IF i > Len(parts) THEN Returned(Sorted(InBounds(pages, total)))
    ELSE LET r == PartPages(parts[i], total)
         IN  IF ~r.ok THEN Raised("ValueError")
             ELSE ParseLoop(parts, i + 1, pages \cup r.add, total)

\* an absent argument, and a str argument
None == [none |-> TRUE, s |-> <<>>]
Str(s) == [none |-> FALSE, s |-> s]

\* mutant of Falsy: the test `pages_str is None` in place of `not pages_str`
Falsy_NoneOnly(p) == p.none

\* mutant of Falsy: an expression without a page token counts as empty
Falsy_NoToken(p) == p.none \/ \A i \in 1..Len(p.s) : p.s[i] \in {",", " "}

\* `not pages_str`: None and "" are falsy
Falsy(p) == p.none \/ p.s = <<>>

parse_pages(p, total) ==
    IF Falsy(p) THEN Returned(RangeList(total))
    ELSE ParseLoop(StrSplit(p.s, ","), 1, {}, total)

(***************************************************************************)
(* os.path (posixpath).  A path is a str whose characters are "/", "."     *)
(* and name pieces.                                                        *)
(***************************************************************************)
\* s.rfind(c): index of the last c in s, 0 if there is none
RECURSIVE RFindFrom(_, _, _)
RFindFrom(s, c, i) ==
    IF i = 0 THEN 0
    ELSE IF s[i] = c THEN i
    ELSE RFindFrom(s, c, i - 1)

RFind(s, c) == RFindFrom(s, c, Len(s))

\* s.rstrip('/')
RECURSIVE RStripSep(_)
RStripSep(s) ==
    IF s # <<>> /\ s[Len(s)] = "/" THEN RStripSep(SubSeq(s, 1, Len(s) - 1))
    ELSE s

\* os.path.dirname(p)
Dirname(p) ==
    LET head == SubSeq(p, 1, RFind(p, "/"))
    IN  IF head # <<>> /\ \E k \in 1..Len(head) : head[k] # "/"
        THEN RStripSep(head)
        ELSE head

\* os.path.basename(p)
Basename(p) == Drop(p, RFind(p, "/") + 1)

\* os.path.splitext(name)[0] for a name without "/": the extension starts
\* at the last dot, unless only dots precede it
SplitextRoot(name) ==
    LET d == RFind(name, ".")
    IN  IF d > 0 /\ \E k \in 1..(d - 1) : name[k] # "."
        THEN SubSeq(name, 1, d - 1)
        ELSE name

\* os.path.join(a, b)
Join(a, b) ==
    IF b # <<>> /\ b[1] = "/" THEN b
    ELSE IF a = <<>> \/ a[Len(a)] = "/" THEN a \o b
    ELSE a \o <<"/">> \o b

\* the directories os.makedirs(d) makes sure of: d and each of its parents
DirChain(d) ==
    {SubSeq(d, 1, k) : k \in {j \in 1..Len(d) : d[j] # "/" /\ (j = Len(d) \/ d[j + 1] = "/")}}

(***************************************************************************)
(* str.format.  A pattern is the sequence of its literal pieces and        *)
(* replacement fields; a field has a name and the width of its format      *)
(* spec (3 for {num:03d}, 0 for none).                                     *)
(***************************************************************************)
Lit(s) == [field |-> "", text |-> s, width |-> 0]
Field(n, w) == [field |-> n, text |-> <<>>, width |-> w]

\* one decimal digit as a character
DigitChar(d) ==
    CASE d = 0 -> "0" [] d = 1 -> "1" [] d = 2 -> "2" [] d = 3 -> "3"
      [] d = 4 -> "4" [] d = 5 -> "5" [] d = 6 -> "6" [] d = 7 -> "7"
      [] d = 8 -> "8" [] d = 9 -> "9"

\* str(n) for n >= 0
RECURSIVE IntToStr(_)
IntToStr(n) ==
    IF n < 10 THEN <<DigitChar(n)>>
    ELSE IntToStr(n \div 10) \o <<DigitChar(n % 10)>>

\* format(n, "0<w>d"): zero-padded on the left to at least w characters
RECURSIVE ZeroPad(_, _)
ZeroPad(s, w) == IF Len(s) >= w THEN s ELSE ZeroPad(<<"0">> \o s, w)

\* the keyword arguments of line 62: base=base, num=idx, page=page_no + 1
FieldNames == {"base", "num", "page"}

\* mutant of FieldText: num is given the original page number
FieldText_NumIsPage(f, base, num, page) ==
    CASE f.field = "base" -> base
      [] f.field = "num" -> ZeroPad(IntToStr(page), f.width)
      [] f.field = "page" -> ZeroPad(IntToStr(page), f.width)

FieldText(f, base, num, page) ==
    CASE f.field = "base" -> base
      [] f.field = "num" -> ZeroPad(IntToStr(num), f.width)
      [] f.field = "page" -> ZeroPad(IntToStr(page), f.width)

\* pattern.format(base=, num=, page=): a field of another name raises KeyError
RECURSIVE FormatFrom(_, _, _, _, _, _)
FormatFrom(pattern, i, acc, base, num, page) ==
    IF i > Len(pattern) THEN [err |-> "none", val |-> acc]
    ELSE IF pattern[i].field = ""
        THEN FormatFrom(pattern, i + 1, acc \o pattern[i].text, base, num, page)
    ELSE IF pattern[i].field \notin FieldNames
        THEN [err |-> "KeyError", val |-> <<>>]
    ELSE FormatFrom(pattern, i + 1,
                    acc \o FieldText(pattern[i], base, num, page),
                    base, num, page)

Format(pattern, base, num, page) == FormatFrom(pattern, 1, <<>>, base, num, page)

\* the default of the parameter pattern: "{base}_{num:03d}.pdf"
DefaultPattern ==
    <<Field("base", 0), Lit(<<"_">>), Field("num", 3), Lit(<<".", "pdf">>)>>

(***************************************************************************)
(* Documents and the file system                                           *)
(***************************************************************************)
\* a PDF file: its kind and the pages it holds (ids of the original pages)
Doc(kind, pages) == [kind |-> kind, pages |-> pages]

NoDoc == Doc("none", <<>>)

\* a file whose write did not complete
Truncated == Doc("truncated", <<>>)

\* mutant of IsFile: the existence check is skipped
IsFile_Always(fs, path) == TRUE

\* os.path.isfile(path)
IsFile(fs, path) == path \in DOMAIN fs

\* mutant of ReaderError: the is_encrypted check is missing
ReaderError_NoEncryptionCheck(doc) ==
    IF doc.kind \in {"corrupt", "truncated"} THEN "PdfReadError" ELSE "none"

\* what PdfReader(path) and reader.is_encrypted raise for a document
ReaderError(doc) ==
    IF doc.kind \in {"corrupt", "truncated"} THEN "PdfReadError"
    ELSE IF doc.kind = "encrypted" THEN "RuntimeError"
    ELSE "none"

\* mutant of WriteFile: a file that exists is left as it is
WriteFile_KeepsExisting(fs, path, c) ==
    [q \in DOMAIN fs \cup {path} |-> IF q \in DOMAIN fs THEN fs[q] ELSE c]

\* mutant of WriteFile: the file is opened in append mode
WriteFile_Append(fs, path, c) ==
    [q \in DOMAIN fs \cup {path} |->
        IF q # path THEN fs[q]
        ELSE IF path \in DOMAIN fs THEN Doc(c.kind, fs[path].pages \o c.pages)
        ELSE c]

\* the file system after writing content c at path
WriteFile(fs, path, c) ==
    [q \in DOMAIN fs \cup {path} |-> IF q = path THEN c ELSE fs[q]]

(***************************************************************************)
(* Bounds and inputs of split_pdf                                          *)
(***************************************************************************)
\* most pages of a source document
MaxPages == 5
\* most consecutive calls of split_pdf with the same arguments
MaxRuns == 2

SrcDir == <<"in">>
SrcName == <<"sample", ".", "pdf">>

PdfPaths == {SrcDir \o <<"/">> \o SrcName, SrcName}

OutDirs == {None, Str(SrcDir), Str(<<"out", "/", "new">>)}

\* "{base}_{page}.pdf"
PagePattern ==
    <<Field("base", 0), Lit(<<"_">>), Field("page", 0), Lit(<<".", "pdf">>)>>

\* "{base}.pdf": every page gets the same name
BasePattern == <<Field("base", 0), Lit(<<".", "pdf">>)>>

\* "{base}_{name}.pdf": name is no keyword argument of line 62
UnknownFieldPattern ==
    <<Field("base", 0), Lit(<<"_">>), Field("name", 0), Lit(<<".", "pdf">>)>>

Patterns == {DefaultPattern, PagePattern, BasePattern, UnknownFieldPattern}

PageExprs ==
    { None, Str(<<>>),
      Str(<<"2", "-", "3">>),
      Str(<<"1", "-", "3", ",", "5">>),
      Str(<<"5", ",", "9">>),
      Str(<<"2", ",", "1">>),
      Str(<<"9">>),
      Str(<<",">>),
      Str(<<"a", "b", "c">>),
      Str(<<"3", "-">>),
      Str(<<"-", "2">>) }

\* the documents a source file may hold
SourceDocs ==
    {Doc("plain", [i \in 1..n |-> i]) : n \in 0..MaxPages}
        \cup {Doc("encrypted", [i \in 1..MaxPages |-> i]), Doc("corrupt", <<>>)}

NoReturn == [none |-> TRUE, paths |-> <<>>]

NoPrev == [outcome |-> "none", files |-> <<>>, dirs |-> {}, began |-> <<>>]

(***************************************************************************)
(* split_pdf                                                               *)
(***************************************************************************)
\* the state of a call that has not begun
Fresh ==
    /\ pc = "idle"
    /\ err = "none"
    /\ ret = NoReturn
    /\ reader = NoDoc
    /\ page_indexes = <<>>
    /\ out_dir = <<>>
    /\ idx = 1
    /\ opened = FALSE
    /\ parsed = FALSE
    /\ written = <<>>
    /\ events = <<>>

SInit ==
    /\ args \in [pdf_path : PdfPaths, out_dir : OutDirs, pattern : Patterns,
                 pages : PageExprs, cb : BOOLEAN]
    /\ files \in {<<>>} \cup {WriteFile(<<>>, args.pdf_path, d) : d \in SourceDocs}
    /\ dirs = {SrcDir}
    /\ Fresh
    /\ run = 1
    /\ began = [files |-> files, dirs |-> dirs]
    /\ prev = NoPrev

\* mutant of Fail: the call starts over after an exception
Fail_StartsOver(e) ==
    /\ pc' = "idle"
    /\ err' = e

\* an exception leaves split_pdf
Fail(e) ==
    /\ pc' = "failed"
    /\ err' = e

\* lines 46-47
CheckFile ==
    /\ pc = "idle"
    /\ IF IsFile(files, args.pdf_path)
       THEN pc' = "open" /\ err' = err
       ELSE Fail("FileNotFoundError")
    /\ UNCHANGED <<args, files, dirs, ret, reader, page_indexes, out_dir, idx,
                   opened, parsed, written, events, run, began, prev>>
    /\ UNCHANGED <<pvars, gvars, cvars>>

\* lines 49-51
OpenReader ==
    /\ pc = "open"
    /\ opened' = TRUE
    /\ IF ~(args.pdf_path \in DOMAIN files)
       THEN Fail("FileNotFoundError") /\ reader' = reader
       ELSE LET doc == files[args.pdf_path]
            IN  IF ReaderError(doc) # "none"
                THEN Fail(ReaderError(doc)) /\ reader' = reader
                ELSE pc' = "resolve" /\ err' = err /\ reader' = doc
    /\ UNCHANGED <<args, files, dirs, ret, page_indexes, out_dir, idx,
                   parsed, written, events, run, began, prev>>
    /\ UNCHANGED <<pvars, gvars, cvars>>

\* mutant of ResolvePages: the output directory is made before the page
\* expression is parsed
ResolvePages_MakesDirsFirst ==
    /\ pc = "resolve"
    /\ parsed' = TRUE
    /\ dirs' = dirs \cup DirChain(IF Falsy(args.out_dir) THEN Dirname(args.pdf_path)
                                   ELSE args.out_dir.s)
    /\ LET total_pages == Len(reader.pages)
           r == parse_pages(args.pages, total_pages)
       IN  IF r.err # "none"
           THEN pc' = "failed" /\ err' = r.err /\ page_indexes' = page_indexes
           ELSE pc' = "mkdir" /\ err' = err /\ page_indexes' = r.val
    /\ UNCHANGED <<args, files, ret, reader, out_dir, idx,
                   opened, written, events, run, began, prev>>
    /\ UNCHANGED <<pvars, gvars, cvars>>

\* lines 53-54
ResolvePages ==
    /\ pc = "resolve"
    /\ parsed' = TRUE
    /\ LET total_pages == Len(reader.pages)
           r == parse_pages(args.pages, total_pages)
       IN  IF r.err # "none"
           THEN Fail(r.err) /\ page_indexes' = page_indexes
           ELSE pc' = "mkdir" /\ err' = err /\ page_indexes' = r.val
    /\ UNCHANGED <<args, files, dirs, ret, reader, out_dir, idx,
                   opened, written, events, run, began, prev>>
    /\ UNCHANGED <<pvars, gvars, cvars>>

\* line 55
Base == SplitextRoot(Basename(args.pdf_path))

\* line 56: out_dir or os.path.dirname(pdf_path)
OutDirOf(a) == IF Falsy(a.out_dir) THEN Dirname(a.pdf_path) ELSE a.out_dir.s

\* what os.makedirs(d, exist_ok=True) raises
MakedirsError(fs, d) ==
    IF d = <<>> THEN "FileNotFoundError"
    ELSE IF d \in DOMAIN fs THEN "FileExistsError"
    ELSE IF \E a \in DirChain(d) : a \in DOMAIN fs THEN "NotADirectoryError"
    ELSE "none"

\* lines 55-57
MakeDirs ==
    /\ pc = "mkdir"
    /\ out_dir' = OutDirOf(args)
    /\ IF MakedirsError(files, out_dir') # "none"
       THEN Fail(MakedirsError(files, out_dir')) /\ dirs' = dirs
       ELSE pc' = "loop" /\ err' = err /\ dirs' = dirs \cup DirChain(out_dir')
    /\ UNCHANGED <<args, files, ret, reader, page_indexes, idx,
                   opened, parsed, written, events, run, began, prev>>
    /\ UNCHANGED <<pvars, gvars, cvars>>

\* mutant of PageAt: the first page is taken whatever page_no is
PageAt_AlwaysFirst(doc, page_no) ==
    IF Len(doc.pages) > 0 THEN [err |-> "none", page |-> doc.pages[1]]
    ELSE [err |-> "IndexError", page |-> 0]

\* reader.pages[page_no]: a negative index counts from the end
PageAt(doc, page_no) ==
    LET n == Len(doc.pages)
    IN  IF 0 <= page_no /\ page_no < n THEN [err |-> "none", page |-> doc.pages[page_no + 1]]
        ELSE IF 0 - n <= page_no /\ page_no < 0
            THEN [err |-> "none", page |-> doc.pages[n + page_no + 1]]
        ELSE [err |-> "IndexError", page |-> 0]

\* the outcomes of lines 63-64: the file is written, open() fails, or
\* write() fails after open() has truncated the file
IoOutcomes == {"ok", "open fails", "write fails"}

\* lines 59-64: one pass of the loop up to the end of the with block
WritePage ==
    /\ pc = "loop"
    /\ idx <= Len(page_indexes)
    /\ LET page_no == page_indexes[idx]
           page == PageAt(reader, page_no)
           name == Format(args.pattern, Base, idx, page_no + 1)
           path == Join(out_dir, name.val)
       IN  IF page.err # "none"
           THEN Fail(page.err) /\ UNCHANGED <<files, written>>
           ELSE IF name.err # "none"
           THEN Fail(name.err) /\ UNCHANGED <<files, written>>
           ELSE \E io \in IoOutcomes :
                   \/ /\ io = "ok"
                      /\ files' = WriteFile(files, path, Doc("plain", <<page.page>>))
                      /\ written' = Append(written, path)
                      /\ pc' = "progress"
                      /\ err' = err
                   \/ /\ io = "open fails"
                      /\ Fail("OSError")
                      /\ UNCHANGED <<files, written>>
                   \/ /\ io = "write fails"
                      /\ files' = WriteFile(files, path, Truncated)
                      /\ Fail("OSError")
                      /\ UNCHANGED written
    /\ UNCHANGED <<args, dirs, ret, reader, page_indexes, out_dir, idx,
                   opened, parsed, events, run, began, prev>>
    /\ UNCHANGED <<pvars, gvars, cvars>>

\* mutant of Progress: the total reported is the page count of the document
Progress_CountsDocumentPages ==
    /\ pc = "progress"
    /\ events' = IF args.cb THEN Append(events, <<idx, Len(reader.pages)>>)
                 ELSE events
    /\ idx' = idx + 1
    /\ pc' = "loop"
    /\ UNCHANGED <<args, files, dirs, err, ret, reader, page_indexes, out_dir,
                   opened, parsed, written, run, began, prev>>
    /\ UNCHANGED <<pvars, gvars, cvars>>

\* lines 65-66, and the step of the loop to the next page
Progress ==
    /\ pc = "progress"
    /\ events' = IF args.cb THEN Append(events, <<idx, Len(page_indexes)>>)
                 ELSE events
    /\ idx' = idx + 1
    /\ pc' = "loop"
    /\ UNCHANGED <<args, files, dirs, err, ret, reader, page_indexes, out_dir,
                   opened, parsed, written, run, began, prev>>
    /\ UNCHANGED <<pvars, gvars, cvars>>

\* the loop is exhausted and the function falls off its end: it returns None
Return ==
    /\ pc = "loop"
    /\ idx > Len(page_indexes)
    /\ pc' = "done"
    /\ ret' = NoReturn
    /\ UNCHANGED <<args, files, dirs, err, reader, page_indexes, out_dir, idx,
                   opened, parsed, written, events, run, began, prev>>
    /\ UNCHANGED <<pvars, gvars, cvars>>

\* the caller calls split_pdf again with the same arguments
Reinvoke ==
    /\ pc \in {"done", "failed"}
    /\ run < MaxRuns
    /\ run' = run + 1
    /\ prev' = [outcome |-> pc, files |-> files, dirs |-> dirs, began |-> began]
    /\ began' = [files |-> files, dirs |-> dirs]
    /\ pc' = "idle"
    /\ err' = "none"
    /\ ret' = NoReturn
    /\ reader' = NoDoc
    /\ page_indexes' = <<>>
    /\ out_dir' = <<>>
    /\ idx' = 1
    /\ opened' = FALSE
    /\ parsed' = FALSE
    /\ written' = <<>>
    /\ events' = <<>>
    /\ UNCHANGED <<args, files, dirs>>
    /\ UNCHANGED <<pvars, gvars, cvars>>

Next ==
    \/ CheckFile
    \/ OpenReader
    \/ ResolvePages
    \/ MakeDirs
    \/ WritePage
    \/ Progress
    \/ Return
    \/ Reinvoke

(***************************************************************************)
(* The PDFSplitter window: its handlers and the _split threads they start  *)
(***************************************************************************)
\* most _split threads started in one behaviour
MaxThreads == 3

\* pages of the documents that are split from the window
GuiPages == 2

IdleText == "Drag & drop a PDF here or click to browse"

ProcessingText == "Processing..."

\* what the Output Dir entry can hold: "" or a directory
OutVars == {<<>>, <<"out", "/", "new">>}

\* self.out_var.get() or None
OrNone(s) == IF s = <<>> THEN None ELSE Str(s)

\* a thread that has just been started on _split(pdf_path, out_dir, ...)
Thread(pdf_path, od) ==
    [pdf_path |-> pdf_path, out_dir |-> od, at |-> "split", i |-> 0]

\* a thread that has run to its end
Ended == [pdf_path |-> <<>>, out_dir |-> None, at |-> "ended", i |-> 0]

\* the window after __init__
GInit ==
    /\ browse_btn = "normal"
    /\ drop_label = IdleText
    /\ progress = 0
    /\ out_var = <<>>
    /\ threads = <<>>

\* _start_split, lines 162-171
StartSplit(pdf_path) ==
    /\ browse_btn' = "disabled"
    /\ drop_label' = ProcessingText
    /\ threads' = Append(threads, Thread(pdf_path, OrNone(out_var)))
    /\ UNCHANGED <<progress, out_var>>

\* _on_browse, lines 154-160: the file dialog returns a path, or "" when it
\* is cancelled
OnBrowse(choice) ==
    IF choice # <<>> THEN StartSplit(choice) ELSE UNCHANGED gvars

\* a file is dropped on the drop area: _on_drop, lines 150-152
OnDrop ==
    /\ Len(threads) < MaxThreads
    /\ \E path \in PdfPaths : StartSplit(path)
    /\ UNCHANGED <<pvars, svars, cvars>>

\* a click on the drop area, bound to _on_browse at line 97
ClickDropArea ==
    /\ Len(threads) < MaxThreads
    /\ \E choice \in PdfPaths \cup {<<>>} : OnBrowse(choice)
    /\ UNCHANGED <<pvars, svars, cvars>>

\* a click on the Browse PDF button of lines 132-141: a disabled button
\* does not run its command
ClickBrowse ==
    /\ browse_btn = "normal"
    /\ Len(threads) < MaxThreads
    /\ \E choice \in PdfPaths \cup {<<>>} : OnBrowse(choice)
    /\ UNCHANGED <<pvars, svars, cvars>>

\* _choose_output, lines 145-148
ChooseOutput ==
    /\ \E directory \in OutVars :
          out_var' = IF directory # <<>> THEN directory ELSE out_var
    /\ UNCHANGED <<browse_btn, drop_label, progress, threads>>
    /\ UNCHANGED <<pvars, svars, cvars>>

\* split_pdf in thread t has written a page and calls progress_cb:
\* _update_progress, lines 194-195
UpdateProgress ==
    /\ \E t \in 1..Len(threads) :
          /\ threads[t].at = "split"
          /\ threads[t].i < GuiPages
          /\ threads' = [threads EXCEPT ![t].i = @ + 1]
          /\ progress' = ((threads[t].i + 1) * 100) \div GuiPages
    /\ UNCHANGED <<browse_btn, drop_label, out_var>>
    /\ UNCHANGED <<pvars, svars, cvars>>

\* split_pdf in thread t returns and the message box of line 182 is shown
SplitReturns ==
    /\ \E t \in 1..Len(threads) :
          /\ threads[t].at = "split"
          /\ threads[t].i = GuiPages
          /\ threads' = [threads EXCEPT ![t].at = "showinfo"]
    /\ UNCHANGED <<browse_btn, drop_label, progress, out_var>>
    /\ UNCHANGED <<pvars, svars, cvars>>

\* split_pdf in thread t raises and the message box of line 184 is shown
SplitRaises ==
    /\ \E t \in 1..Len(threads) :
          /\ threads[t].at = "split"
          /\ threads' = [threads EXCEPT ![t].at = "showerror"]
    /\ UNCHANGED <<browse_btn, drop_label, progress, out_var>>
    /\ UNCHANGED <<pvars, svars, cvars>>

\* the finally block of lines 185-192, and the end of thread t
Finally ==
    /\ \E t \in 1..Len(threads) :
          /\ threads[t].at \in {"showinfo", "showerror"}
          /\ threads' = [threads EXCEPT ![t] = Ended]
    /\ browse_btn' = "normal"
    /\ drop_label' = IdleText
    /\ progress' = 0
    /\ UNCHANGED out_var
    /\ UNCHANGED <<pvars, svars, cvars>>

GNext ==
    \/ OnDrop
    \/ ClickDropArea
    \/ ClickBrowse
    \/ ChooseOutput
    \/ UpdateProgress
    \/ SplitReturns
    \/ SplitRaises
    \/ Finally

\* the window is not under study: its variables rest
GIdle ==
    /\ browse_btn = "normal"
    /\ drop_label = IdleText
    /\ progress = 0
    /\ out_var = <<>>
    /\ threads = <<>>

(***************************************************************************)
(* caesar_shift of caesar_cipher_visualizer.py.  A character is its code   *)
(* point, ord(ch).                                                         *)
(***************************************************************************)
\* longest text enumerated
MaxText == 3

\* seps
Seps == {46, 45, 124}

\* the characters of the texts: A Z a 5, the space, the separators . - |
\* and the upper-case letter U+00C9
Chars == {65, 90, 97, 53, 32, 201} \cup Seps

\* the shifts enumerated
Shifts == {0 - 27, 0 - 26, 0 - 1, 0, 1, 13, 25, 26, 27}

\* ch.isupper() on Chars
IsUpper(ch) == ch \in 65..90 \/ ch = 201

\* ch.islower() on Chars
IsLower(ch) == ch \in 97..122

\* one pass of the loop of lines 8-20: what is appended to result for ch
ShiftChar(ch, shift, preserve) ==
    IF ch \in Seps THEN <<32>>
    ELSE IF IsUpper(ch) THEN <<((ch - 65 + shift) % 26) + 65>>
    ELSE IF IsLower(ch) THEN <<((ch - 97 + shift) % 26) + 97>>
    ELSE IF preserve THEN <<ch>>
    ELSE <<>>

RECURSIVE caesar_shift(_, _, _)
caesar_shift(text, shift, preserve) ==
    IF text = <<>> THEN <<>>
    ELSE ShiftChar(text[1], shift, preserve) \o caesar_shift(Tail(text), shift, preserve)

RECURSIVE TextsOfLen(_)
TextsOfLen(n) ==
    IF n = 0 THEN {<<>>}
    ELSE {Append(s, ch) : s \in TextsOfLen(n - 1), ch \in Chars}

Texts == UNION {TextsOfLen(n) : n \in 0..MaxText}

\* no call made yet
NotShifted == [called |-> FALSE, val |-> <<>>]

Shifted(s) == [called |-> TRUE, val |-> s]

\* caesar_shift is not under study: its variables rest
CIdle ==
    /\ cs_text = <<>>
    /\ cs_shift = 0
    /\ cs_preserve = TRUE
    /\ cs_out = NotShifted
    /\ cs_back = NotShifted

\* the arguments of the call
CInit ==
    /\ cs_text \in Texts
    /\ cs_shift \in Shifts
    /\ cs_preserve \in BOOLEAN
    /\ cs_out = NotShifted
    /\ cs_back = NotShifted

\* caesar_shift(text, shift, preserve)
CallCaesarShift ==
    /\ ~cs_out.called
    /\ cs_out' = Shifted(caesar_shift(cs_text, cs_shift, cs_preserve))
    /\ UNCHANGED <<cs_text, cs_shift, cs_preserve, cs_back>>
    /\ UNCHANGED <<pvars, svars, gvars>>

\* caesar_shift(out, -shift, preserve): the result is shifted back
CallShiftBack ==
    /\ cs_out.called
    /\ ~cs_back.called
    /\ cs_back' = Shifted(caesar_shift(cs_out.val, 0 - cs_shift, cs_preserve))
    /\ UNCHANGED <<cs_text, cs_shift, cs_preserve, cs_out>>
    /\ UNCHANGED <<pvars, svars, gvars>>

CNext ==
    \/ CallCaesarShift
    \/ CallShiftBack

(***************************************************************************)
(* Specification of parse_pages as a pure function: the arguments are      *)
(* drawn at Init and one action makes the call.                            *)
(***************************************************************************)
RECURSIVE StrsOfLen(_)
StrsOfLen(n) ==
    IF n = 0 THEN {<<>>}
    ELSE {<<c>> \o s : c \in Alphabet, s \in StrsOfLen(n - 1)}

Exprs == UNION {StrsOfLen(n) : n \in 0..MaxLen}

NotCalled == [err |-> "pending", val |-> <<>>]


\* parse_pages is not under study: its variables rest
PIdle ==
    /\ pp_str = None
    /\ pp_total = 0
    /\ pp_ret = NotCalled

\* split_pdf is not under study: its variables rest
SIdle ==
    /\ args = [pdf_path |-> SrcName, out_dir |-> None, pattern |-> DefaultPattern,
               pages |-> None, cb |-> FALSE]
    /\ files = <<>>
    /\ dirs = {}
    /\ Fresh
    /\ run = 1
    /\ began = [files |-> files, dirs |-> dirs]
    /\ prev = NoPrev

PInit ==
    /\ SIdle
    /\ GIdle
    /\ CIdle
    /\ pp_str \in {None} \cup {Str(e) : e \in Exprs}
    /\ pp_total \in (0 - 1)..MaxTotal
    /\ pp_ret = NotCalled

CallParsePages ==
    /\ pp_ret = NotCalled
    /\ pp_ret' = parse_pages(pp_str, pp_total)
    /\ UNCHANGED <<pp_str, pp_total>>
    /\ UNCHANGED <<svars, gvars, cvars>>

PNext == CallParsePages

SpecParse == PInit /\ [][PNext]_vars

\* the split operation
Init == PIdle /\ SInit /\ GIdle /\ CIdle

Spec == Init /\ [][Next]_vars

\* the window
GuiInit == PIdle /\ SIdle /\ CIdle /\ GInit

SpecGui == GuiInit /\ [][GNext]_vars

\* caesar_shift as a pure function
CaesarInit == PIdle /\ SIdle /\ GIdle /\ CInit

SpecCaesar == CaesarInit /\ [][CNext]_vars

(***************************************************************************)
(* Claims about parse_pages (checked under SpecParse)                      *)
(***************************************************************************)
Called == pp_ret # NotCalled

\* C1: for every total > 0, parse_pages with an empty or absent (None)
\* expression returns exactly the list 0, 1, ..., total-1 in ascending order.
C1_EmptyExprAllPages ==
    (Called /\ pp_total > 0 /\ (pp_str.none \/ pp_str.s = <<>>))
        => /\ pp_ret.err = "none"
           /\ Len(pp_ret.val) = pp_total
           /\ \A i \in 1..pp_total : pp_ret.val[i] = i - 1

C1_Witness ==
    /\ pp_str = Str(<<>>)
    /\ pp_total = 3
    /\ pp_ret = Returned(<<0, 1, 2>>)

\* C2: whenever parse_pages accepts the expression, for every total, the
\* returned list is strictly ascending (so without duplicates) and every
\* element i satisfies 0 <= i < total.
C2_AscendingInBounds ==
    (Called /\ pp_ret.err = "none")
        => /\ \A i \in 1..Len(pp_ret.val) :
                0 <= pp_ret.val[i] /\ pp_ret.val[i] < pp_total
           /\ \A i \in 1..(Len(pp_ret.val) - 1) :
                pp_ret.val[i] < pp_ret.val[i + 1]

\* the token 0 (negative after conversion) and a range past the last page
C2_Witness ==
    /\ pp_str = Str(<<"0", "-", "3">>)
    /\ pp_total = 2
    /\ pp_ret = Returned(<<0, 1>>)

\* a page number as a user writes it: digits, spaces around them allowed
PageNumber(s) ==
    LET t == Strip(s)
    IN  t # <<>> /\ \A i \in 1..Len(t) : t[i] \in Digits

\* a start-end pair of page numbers
PagePair(s) ==
    \E i \in 1..Len(s) :
        /\ s[i] = "-"
        /\ PageNumber(SubSeq(s, 1, i - 1))
        /\ PageNumber(Drop(s, i + 1))

\* some comma-separated token is non-empty and is neither of the two
HasMalformedToken(s) ==
    LET parts == StrSplit(s, ",")
    IN  \E k \in 1..Len(parts) :
            /\ Strip(parts[k]) # <<>>
            /\ ~PageNumber(parts[k])
            /\ ~PagePair(parts[k])

\* C3: parse_pages fails with a parse error (ValueError), and never returns
\* a list, for every expression that contains a non-empty token which is
\* neither a page number nor a start-end pair of page numbers.
C3_MalformedRaises ==
    (Called /\ ~pp_str.none /\ HasMalformedToken(pp_str.s))
        => pp_ret.err = "ValueError"

\* C10: parse_pages fails with an invalid-document error whenever
\* total <= 0, for every expression including the empty one; it does not
\* return a list.
C10_NoPagesRaises ==
    (Called /\ pp_total <= 0) => pp_ret.err = "InvalidDocumentError"

\* the comma-separated tokens of an expression
TokensOf(s) == StrSplit(s, ",")

\* the number a page number writes
NumVal(s) == DigitsVal(Strip(s), 0)

\* the two numbers of a start-end pair
PairStart(tok) ==
    NumVal(SubSeq(tok, 1, (CHOOSE i \in 1..Len(tok) : tok[i] = "-") - 1))

PairEnd(tok) ==
    NumVal(Drop(tok, (CHOOSE i \in 1..Len(tok) : tok[i] = "-") + 1))

\* the zero-based indices a token stands for in a document of total pages
Denoted(tok, total) ==
    IF PageNumber(tok)
        THEN {i \in 0..(total - 1) : i = NumVal(tok) - 1}
    ELSE IF PagePair(tok)
        THEN {i \in 0..(total - 1) : PairStart(tok) - 1 <= i /\ i <= PairEnd(tok) - 1}
    ELSE {}

\* every non-empty token is a page number or a start-end pair
WellFormed(s) ==
    \A k \in 1..Len(TokensOf(s)) :
        \/ Strip(TokensOf(s)[k]) = <<>>
        \/ PageNumber(TokensOf(s)[k])
        \/ PagePair(TokensOf(s)[k])

RangeTokens(s) == {k \in 1..Len(TokensOf(s)) : PagePair(TokensOf(s)[k])}
NumberTokens(s) == {k \in 1..Len(TokensOf(s)) : PageNumber(TokensOf(s)[k])}

DenotedBy(s, total) ==
    UNION {Denoted(TokensOf(s)[k], total) : k \in 1..Len(TokensOf(s))}

Elements(list) == {list[i] : i \in 1..Len(list)}

\* C11: a range token a-b contributes exactly the zero-based indices of
\* [a-1, b-1] intersected with [0, total): a tail past the last page and a
\* start below page 1 are clipped, and a range whose end is below its start
\* contributes nothing and raises no error.
C11_RangeContribution ==
    (Called /\ ~pp_str.none /\ WellFormed(pp_str.s)
        /\ RangeTokens(pp_str.s) # {} /\ NumberTokens(pp_str.s) = {})
        => /\ pp_ret.err = "none"
           /\ Elements(pp_ret.val)
                = UNION { {i \in 0..(pp_total - 1) :
                              /\ PairStart(TokensOf(pp_str.s)[k]) - 1 <= i
                              /\ i <= PairEnd(TokensOf(pp_str.s)[k]) - 1}
                          : k \in RangeTokens(pp_str.s) }

\* a range that starts at page 2 and runs past the last of 3 pages
C11_Witness ==
    /\ pp_str = Str(<<"2", "-", "3", "3">>)
    /\ pp_total = 3
    /\ pp_ret = Returned(<<1, 2>>)

\* C12: a single-number token n contributes index n-1 when
\* 1 <= n <= total and nothing otherwise; a number out of bounds (0 or
\* greater than total) is dropped without an error and without affecting
\* what the other tokens contribute.
C12_NumberContribution ==
    (Called /\ ~pp_str.none /\ WellFormed(pp_str.s) /\ NumberTokens(pp_str.s) # {})
        => /\ pp_ret.err = "none"
           /\ \A k \in NumberTokens(pp_str.s) :
                LET n == NumVal(TokensOf(pp_str.s)[k])
                IN  (n - 1 \in Elements(pp_ret.val)) <=> (1 <= n /\ n <= pp_total)
           /\ Elements(pp_ret.val)
                = { NumVal(TokensOf(pp_str.s)[k]) - 1 :
                      k \in {j \in NumberTokens(pp_str.s) :
                                /\ 1 <= NumVal(TokensOf(pp_str.s)[j])
                                /\ NumVal(TokensOf(pp_str.s)[j]) <= pp_total} }
                  \cup UNION {Denoted(TokensOf(pp_str.s)[k], pp_total)
                                : k \in RangeTokens(pp_str.s)}

\* page 1 is kept while page 3 of a 2-page document is dropped
C12_Witness ==
    /\ pp_str = Str(<<"3", ",", "1">>)
    /\ pp_total = 2
    /\ pp_ret = Returned(<<0>>)

\* ",".join(parts)
RECURSIVE StrJoin(_)
StrJoin(parts) ==
    IF Len(parts) = 0 THEN <<>>
    ELSE IF Len(parts) = 1 THEN parts[1]
    ELSE parts[1] \o <<",">> \o StrJoin(Tail(parts))

\* parts with the tokens at i and i + 1 exchanged
Swapped(parts, i) ==
    [k \in 1..Len(parts) |->
        IF k = i THEN parts[i + 1] ELSE IF k = i + 1 THEN parts[i] ELSE parts[k]]

\* C20: the result of parse_pages depends only on the set of pages the
\* tokens denote, not on token order or repetition: exchanging two
\* neighbouring tokens (so any permutation) or repeating a token yields the
\* same outcome for the same total, and so do overlapping ranges
\* ("1-3,2-4" against "1-4").
C20_OrderAndRepetitionIrrelevant ==
    (Called /\ ~pp_str.none /\ pp_str.s # <<>>)
        => LET parts == TokensOf(pp_str.s)
           IN  /\ \A i \in 1..(Len(parts) - 1) :
                     parse_pages(Str(StrJoin(Swapped(parts, i))), pp_total) = pp_ret
               /\ \A i \in 1..Len(parts) :
                     parse_pages(Str(StrJoin(Append(parts, parts[i]))), pp_total)
                        = pp_ret
               /\ WellFormed(pp_str.s) =>
                     /\ pp_ret.err = "none"
                     /\ Elements(pp_ret.val) = DenotedBy(pp_str.s, pp_total)
               /\ parse_pages(Str(<<"1", "-", "3", ",", "2", "-", "4">>), pp_total)
                     = parse_pages(Str(<<"1", "-", "4">>), pp_total)

\* two tokens in descending order
C20_Witness ==
    /\ pp_str = Str(<<"3", ",", "1">>)
    /\ pp_total = 3
    /\ pp_ret = Returned(<<0, 2>>)
    /\ parse_pages(Str(<<"1", ",", "3">>), 3) = pp_ret

\* a non-empty expression made only of commas and whitespace
OnlySeparators(s) == s # <<>> /\ \A i \in 1..Len(s) : s[i] \in {",", " "}

\* C25: the all-pages list is returned only for the empty or absent
\* expression: a non-empty expression made only of commas and whitespace
\* raises no error and resolves to the empty selection, whatever the page
\* count, so that no page is left for split_pdf to write.
C25_SeparatorsOnlySelectNothing ==
    (pp_ret # NotCalled /\ ~pp_str.none /\ OnlySeparators(pp_str.s))
        => /\ pp_ret = Returned(<<>>)
           /\ pp_total > 0 => pp_ret # Returned(RangeList(pp_total))

C25_Witness ==
    /\ pp_str = Str(<<",", " ", ",">>)
    /\ pp_total = 3
    /\ pp_ret = Returned(<<>>)

(***************************************************************************)
(* Claims about split_pdf (checked under Spec)                             *)
(***************************************************************************)
\* the source file existed when the call started, and what it held
SourceExisted == args.pdf_path \in DOMAIN began.files
SourceDoc == began.files[args.pdf_path]

\* the file name of a written path: what follows its last "/"
FileName(path) == Drop(path, RFind(path, "/") + 1)

\* name is sample_<digits>.pdf; the digits
IsNumbered(name) ==
    /\ Len(name) >= 5
    /\ SubSeq(name, 1, 2) = <<"sample", "_">>
    /\ SubSeq(name, Len(name) - 1, Len(name)) = <<".", "pdf">>
    /\ \A i \in 3..(Len(name) - 2) : name[i] \in Digits

NumberOf(name) == DigitsVal(SubSeq(name, 3, Len(name) - 2), 0)
NumberWidth(name) == Len(name) - 4

\* the file names written so far, in order
WrittenNames == [k \in 1..Len(written) |-> FileName(written[k])]

\* C4: a split that selects m pages i_1 < ... < i_m writes exactly m
\* outputs, and the k-th output is named with num = k and page = i_k + 1:
\* the default template gives base_001 ... base_00m whatever the gaps in the
\* page numbers ("2-3" of 5 pages gives sample_001.pdf and sample_002.pdf;
\* "1-3,5" gives num 1,2,3,4 and page 1,2,3,5).
C4_NumIsPositionPageIsOriginal ==
    /\ pc = "done" => Len(written) = Len(page_indexes)
    /\ Len(written) <= Len(page_indexes)
    /\ args.pattern = DefaultPattern =>
          /\ \A k \in 1..Len(written) :
                /\ IsNumbered(WrittenNames[k])
                /\ NumberWidth(WrittenNames[k]) = 3
                /\ NumberOf(WrittenNames[k]) = k
          /\ \A j, k \in 1..Len(written) : j # k => written[j] # written[k]
    /\ args.pattern = PagePattern =>
          \A k \in 1..Len(written) :
                /\ IsNumbered(WrittenNames[k])
                /\ NumberOf(WrittenNames[k]) = page_indexes[k] + 1
    /\ (pc = "done" /\ Len(reader.pages) = 5 /\ args.pages = Str(<<"2", "-", "3">>)
            /\ args.pattern = DefaultPattern)
          => WrittenNames = << <<"sample", "_", "0", "0", "1", ".", "pdf">>,
                               <<"sample", "_", "0", "0", "2", ".", "pdf">> >>
    /\ (pc = "done" /\ Len(reader.pages) = 5
            /\ args.pages = Str(<<"1", "-", "3", ",", "5">>))
          => /\ args.pattern = DefaultPattern =>
                  [k \in 1..Len(written) |-> NumberOf(WrittenNames[k])] = <<1, 2, 3, 4>>
             /\ args.pattern = PagePattern =>
                  WrittenNames = << <<"sample", "_", "1", ".", "pdf">>,
                                    <<"sample", "_", "2", ".", "pdf">>,
                                    <<"sample", "_", "3", ".", "pdf">>,
                                    <<"sample", "_", "5", ".", "pdf">> >>

C4_Witness ==
    /\ pc = "done"
    /\ Len(reader.pages) = 5
    /\ args.pages = Str(<<"1", "-", "3", ",", "5">>)
    /\ args.pattern = DefaultPattern
    /\ Len(written) = 4

\* the files other than the source
Outputs == DOMAIN files \ {args.pdf_path}

\* C5: splitting an N-page document with default settings (no page
\* expression, default template) produces exactly N files named
\* base_001.<ext> ... base_00N.<ext>; the k-th file holds exactly one page,
\* page k of the source.
C5_DefaultSplit ==
    (pc = "done" /\ (args.pages.none \/ args.pages.s = <<>>)
        /\ args.pattern = DefaultPattern)
        => /\ Len(written) = Len(SourceDoc.pages)
           /\ Cardinality(Outputs) = Len(SourceDoc.pages)
           /\ Outputs = {written[k] : k \in 1..Len(written)}
           /\ \A k \in 1..Len(written) :
                /\ FileName(written[k])
                      = <<"sample", "_", "0", "0", DigitChar(k), ".", "pdf">>
                /\ files[written[k]].kind = "plain"
                /\ files[written[k]].pages = <<SourceDoc.pages[k]>>

C5_Witness ==
    /\ pc = "done"
    /\ args.pages = None
    /\ args.pattern = DefaultPattern
    /\ Len(SourceDoc.pages) = 3
    /\ Cardinality(Outputs) = 3

\* C6: a successful split returns to its caller the ordered sequence of the
\* paths it wrote, one per selected page, in ascending page order.
C6_ReturnsWrittenPaths ==
    pc = "done" => (~ret.none /\ ret.paths = written)

\* C7: splitting an encrypted document fails with the encryption error
\* before any output file is created: when the error is raised no page has
\* been written and no progress event has been emitted.
C7_EncryptedFailsFirst ==
    (SourceExisted /\ SourceDoc.kind = "encrypted")
        => /\ pc \in {"idle", "open", "failed"}
           /\ pc = "failed" => err = "RuntimeError"
           /\ written = <<>>
           /\ events = <<>>
           /\ files = began.files
           /\ dirs = began.dirs

C7_Witness ==
    /\ SourceExisted
    /\ SourceDoc.kind = "encrypted"
    /\ opened
    /\ pc = "failed"
    /\ err = "RuntimeError"

\* C8: when pdf_path does not name an existing file, split fails with
\* FileNotFoundError as its first step: the document is not opened, the
\* expression is not parsed, and nothing is written.
C8_MissingSourceFailsFirst ==
    ~SourceExisted
        => /\ pc \in {"idle", "failed"}
           /\ pc = "failed" => err = "FileNotFoundError"
           /\ ~opened
           /\ ~parsed
           /\ written = <<>>
           /\ events = <<>>
           /\ files = began.files
           /\ dirs = began.dirs

C8_Witness ==
    /\ ~SourceExisted
    /\ pc = "failed"
    /\ err = "FileNotFoundError"
    /\ ~opened

\* the previous call and this one both completed, on the same source
TwiceOnUnchangedSource ==
    /\ run >= 2
    /\ pc = "done"
    /\ prev.outcome = "done"
    /\ SourceExisted
    /\ args.pdf_path \in DOMAIN prev.began.files
    /\ SourceDoc = prev.began.files[args.pdf_path]

\* C9: calling split twice with identical inputs on an unchanged source and
\* output directory leaves, after the second call, the same set of files
\* with the same contents as after the first: files are overwritten, none
\* is appended to and none is duplicated under a new name.
C9_Idempotent ==
    TwiceOnUnchangedSource => (files = prev.files /\ dirs = prev.dirs)

C9_Witness ==
    /\ TwiceOnUnchangedSource
    /\ Len(written) >= 2
    /\ \A k \in 1..Len(written) : files[written[k]].kind = "plain"

\* C13: during one split of m selected pages, with a progress callback, the
\* progress events are exactly (1,m), (2,m), ... in this order; event (k,m)
\* is emitted after the k-th output has been fully written and before the
\* (k+1)-th write starts, and a successful run ends with (m,m).
C13_ProgressEvents ==
    args.cb =>
        LET m == Len(page_indexes)
        IN  /\ events = [k \in 1..Len(events) |-> <<k, m>>]
            /\ Len(events) <= m
            /\ pc = "progress" =>
                  /\ Len(written) = Len(events) + 1
                  /\ idx = Len(written)
                  /\ files[written[idx]].kind = "plain"
            /\ pc # "progress" => Len(written) = Len(events)
            /\ pc = "done" =>
                  /\ Len(events) = m
                  /\ m > 0 => events[m] = <<m, m>>

C13_Witness ==
    /\ args.cb
    /\ pc = "done"
    /\ Len(reader.pages) = 5
    /\ events = << <<1, 2>>, <<2, 2>> >>

\* the pattern has a replacement field that line 62 passes no value for
HasUnknownField(pattern) ==
    \E i \in 1..Len(pattern) : pattern[i].field \notin FieldNames \cup {""}

\* C14: a naming template with an unrecognized placeholder is rejected with
\* an error before any extraction begins: for every selection (an empty one
\* included) the call fails, before any page is extracted, any output
\* directory or file is created and any progress event is emitted.
C14_UnknownPlaceholderRejectedFirst ==
    HasUnknownField(args.pattern)
        => /\ pc \notin {"loop", "progress", "done"}
           /\ dirs = began.dirs
           /\ files = began.files
           /\ written = <<>>
           /\ events = <<>>

\* the source is a readable document and the expression, though well
\* formed, selects none of its pages
SelectsNothing ==
    /\ SourceExisted
    /\ SourceDoc.kind = "plain"
    /\ ~args.pages.none
    /\ args.pages.s # <<>>
    /\ WellFormed(args.pages.s)
    /\ NumberTokens(args.pages.s) \cup RangeTokens(args.pages.s) # {}
    /\ DenotedBy(args.pages.s, Len(SourceDoc.pages)) = {}
    /\ ~HasUnknownField(args.pattern)

\* C15: a syntactically valid expression that selects no page of the
\* document is not an error: split completes successfully, writes zero
\* output files and emits zero progress events, unlike the ValueError that
\* ends a call with a malformed expression.
C15_EmptySelectionSucceeds ==
    SelectsNothing
        => /\ pc # "failed"
           /\ err = "none"
           /\ written = <<>>
           /\ events = <<>>
           /\ files = began.files
           /\ parsed => page_indexes = <<>>

\* C16: for a source path that names an existing file, with a directory
\* part or a bare file name, a split called without out_dir does not fail
\* for want of a directory and every path it writes lies in the directory
\* of the source; and whatever out_dir is, the output directory exists
\* together with its parents before the first page is written.
C16_DefaultOutDir ==
    /\ (SourceExisted /\ Falsy(args.out_dir))
          => /\ err # "FileNotFoundError"
             /\ \A k \in 1..Len(written) :
                    Dirname(written[k]) = Dirname(args.pdf_path)
    /\ written # <<>> => DirChain(OutDirOf(args)) \subseteq dirs

\* the rank of a position in the order Idle, Validating, Resolving,
\* Extracting, Done
Phase(p) ==
    CASE p = "idle" -> 0
      [] p = "open" -> 1
      [] p = "resolve" -> 2
      [] p \in {"mkdir", "loop", "progress"} -> 3
      [] p = "done" -> 4
      [] p = "failed" -> 5

\* C17: one call moves through the phases Idle, Validating, Resolving,
\* Extracting, Done in this order, never skipping one and never going back;
\* from every phase it may instead enter Failed, which is absorbing: after
\* entering Failed the call writes no further page, emits no further
\* progress event and retries nothing.
C17_PhaseOrder ==
    [][ run' = run =>
          /\ \/ pc' = "failed"
             \/ /\ pc # "failed"
                /\ Phase(pc') \in {Phase(pc), Phase(pc) + 1}
          /\ pc \in {"failed", "done"} =>
                /\ pc' = pc
                /\ files' = files
                /\ dirs' = dirs
                /\ written' = written
                /\ events' = events
                /\ idx' = idx ]_vars

\* a call that failed while extracting, after two pages were written
C17_Witness ==
    /\ pc = "failed"
    /\ err = "OSError"
    /\ Len(written) = 2
    /\ Len(page_indexes) = 4

\* C18: when extracting or writing the page at position k of the selection
\* fails, the job aborts at once: no page at a later position is extracted
\* or written, the outputs of positions 1..k-1 stay on disk unchanged, and
\* the error reaches the caller as it was raised.
C18_AbortKeepsEarlierOutputs ==
    [][ /\ (pc = "loop" /\ pc' = "failed") =>
              /\ written' = written
              /\ events' = events
              /\ err' \in {"OSError", "KeyError"}
              /\ \A j \in 1..Len(written) :
                    /\ written[j] \in DOMAIN files'
                    /\ files'[written[j]] = files[written[j]]
        /\ (pc = "failed" /\ run' = run) =>
              /\ pc' = "failed"
              /\ files' = files
              /\ written' = written ]_vars

\* two pages of this call went to the same path
Collided == \E j, k \in 1..Len(written) : j < k /\ written[j] = written[k]

\* the last position so far whose output went to the path of position k
LastAt(k) ==
    CHOOSE j \in 1..Len(written) :
        /\ written[j] = written[k]
        /\ \A i \in 1..Len(written) : written[i] = written[k] => i <= j

\* C19: when the naming template maps two selected pages to the same
\* output path the split does not fail: each write overwrites the previous
\* one, the file finally holds the page with the highest selected index
\* (last write wins), and the progress events still count every selected
\* page.
C19_LastWriteWins ==
    Collided
        => /\ pc = "failed" => err = "OSError"
           /\ pc # "failed" =>
                \A k \in 1..Len(written) :
                    files[written[k]]
                        = Doc("plain", <<reader.pages[page_indexes[LastAt(k)] + 1]>>)
           /\ pc = "done" =>
                /\ Len(written) = Len(page_indexes)
                /\ files[written[1]]
                      = Doc("plain",
                            <<reader.pages[page_indexes[Len(page_indexes)] + 1]>>)
                /\ args.cb => Len(events) = Len(page_indexes)

C19_Witness ==
    /\ Collided
    /\ pc = "done"
    /\ args.cb
    /\ args.pages = Str(<<"1", "-", "3", ",", "5">>)
    /\ Len(reader.pages) = 5
    /\ Cardinality({written[k] : k \in 1..Len(written)}) = 1
    /\ files[written[1]] = Doc("plain", <<5>>)
    /\ Len(events) = 4

\* the call failed while validating the source or resolving the selection:
\* before the reader was opened or parse_pages had returned
FailedBeforeExtraction ==
    /\ pc = "failed"
    /\ \/ ~parsed
       \/ err = "ValueError"

\* C21: a split that fails during validation or selection resolution
\* (source missing, document encrypted or unreadable, malformed page
\* expression) leaves the file system exactly as it was: no file is
\* written and no directory is created.
C21_FailedValidationLeavesFileSystem ==
    FailedBeforeExtraction
        => /\ files = began.files
           /\ dirs = began.dirs
           /\ written = <<>>
           /\ events = <<>>

C21_Witness ==
    /\ pc = "failed"
    /\ err = "ValueError"
    /\ parsed
    /\ args.out_dir = Str(<<"out", "/", "new">>)
    /\ args.pages = Str(<<"3", "-">>)
    /\ <<"out", "/", "new">> \notin dirs
    /\ DOMAIN files = {args.pdf_path}

\* the paths whose file this call created or changed
ChangedPaths ==
    {q \in DOMAIN files : q \notin DOMAIN began.files \/ files[q] # began.files[q]}

\* C22: at every point of a split, also right after a failed write, the
\* files this call created or changed are outputs it completed, each
\* announced by a progress event once the callback has run: a failed write
\* leaves no new, empty or truncated file at the failing page's path and a
\* file that was there keeps its content.
C22_NoFileLeftByFailedWrite ==
    /\ ChangedPaths \subseteq {written[k] : k \in 1..Len(written)}
    /\ \A q \in DOMAIN files :
          files[q].kind = "truncated"
              => q \in DOMAIN began.files /\ began.files[q] = files[q]
    /\ (args.cb /\ pc # "progress") => Len(events) = Len(written)

\* C23: split never writes to the path of its source document: for every
\* template and every output directory, the default included, no output
\* path equals pdf_path, and the source file is as it was when the call
\* began.
C23_SourceNeverWritten ==
    /\ \A k \in 1..Len(written) : written[k] # args.pdf_path
    /\ SourceExisted
          => /\ args.pdf_path \in DOMAIN files
             /\ files[args.pdf_path] = SourceDoc

(***************************************************************************)
(* Claims about the PDFSplitter window (checked under SpecGui)             *)
(***************************************************************************)
\* the _split threads that have not run to their end
Running == {t \in 1..Len(threads) : threads[t].at # "ended"}

\* C24: in the window at most one background split runs at any time: while
\* a split started by a drop, a click on the drop area or the Browse PDF
\* button is running no second thread is started, so no two splits write
\* into the same output directory at the same time, and the Browse PDF
\* button is disabled exactly while a split is running.
C24_AtMostOneSplit ==
    /\ Cardinality(Running) <= 1
    /\ \A t, u \in Running :
          (t # u /\ threads[t].at = "split" /\ threads[u].at = "split")
              => OutDirOf(threads[t]) # OutDirOf(threads[u])
    /\ browse_btn = "disabled" <=> Running # {}

(***************************************************************************)
(* Claims about caesar_shift (checked under SpecCaesar)                    *)
(***************************************************************************)
AsciiUpper == 65..90

AsciiLower == 97..122

\* a text without separator characters
NoSeparators(t) == \A i \in 1..Len(t) : t[i] \notin Seps

\* C26: with preserve = True, for every shift and every text of ASCII
\* letters and other non-separator characters, the result has the length
\* of the text, every letter keeps its case, and the opposite shift gives
\* the text back; and in any text the separators . - | are the only
\* characters that are replaced by a space.
C26_OppositeShiftInverts ==
    (cs_preserve /\ cs_out.called)
        => /\ Len(cs_out.val) = Len(cs_text)
           /\ \A i \in 1..Len(cs_text) :
                 (cs_out.val[i] = 32 /\ cs_text[i] # 32) <=> cs_text[i] \in Seps
           /\ NoSeparators(cs_text)
                 => /\ \A i \in 1..Len(cs_text) :
                          /\ cs_text[i] \in AsciiUpper => cs_out.val[i] \in AsciiUpper
                          /\ cs_text[i] \in AsciiLower => cs_out.val[i] \in AsciiLower
                    /\ cs_back.called => cs_back.val = cs_text

====
